---- MODULE Spec2Model ----
(***************************************************************************)
(* State-machine model of TrainIMLE.py: the index pool (KOrKMinusOne), the *)
(* candidate selection of get_image_latent_dataset and the epoch loop of   *)
(* the __main__ block.                                                     *)
(***************************************************************************)
EXTENDS Integers, Sequences, FiniteSets, TLC

VARIABLES
    args,           \* the argparse Namespace
    data_len,       \* len(data_tr)
    kkm,            \* the index pool: [idxs, counter]
    pc,             \* position of the control thread
    epoch,          \* loop variable of the epoch loop
    sel,            \* locals of get_image_latent_dataset
    batch_dataset,  \* the ImageLatentDataset of the epoch
    train,          \* locals of the minibatch loop
    cur_step,       \* global gradient-step counter
    net,            \* model parameters / optimizer / scheduler step counts
    out,            \* external effects: log calls, checkpoints, validations
    obs             \* history kept for the properties only

vars == <<args, data_len, kkm, pc, epoch, sel, batch_dataset, train,
          cur_step, net, out, obs>>

----------------------------------------------------------------------------
(* Bounds of the model.                                                    *)

MaxPoolN == 3       \* dataset sizes explored for the index pool alone
MaxReturned == 7    \* pops go on until this many indices have been returned
MaxB == 2           \* example-subset sizes explored for candidate selection
MaxCodeBs == 2      \* --code_bs values explored
MaxNs == 2          \* --ns values explored (with 1 <= sp <= ns)
MaxSize == 3        \* derived-dataset sizes explored for the minibatch loop
MaxIpe == 5         \* --ipe values explored for the minibatch loop
MaxMiniBs == 2      \* --mini_bs values explored for the minibatch loop
MaxEpochs == 2      \* --epochs values explored for whole runs
MaxEvalIter == 2    \* --eval_iter values explored for whole runs
MaxArgNs == 6       \* --ns and --sp values explored for get_args alone

----------------------------------------------------------------------------
(* Generic helpers.                                                        *)

Min(a, b) == IF a < b THEN a ELSE b

Max(a, b) == IF a < b THEN b ELSE a

\* ceil(a / b) for b >= 1, as len(DataLoader) computes it with drop_last=False
CeilDiv(a, b) == (a + b - 1) \div b

Range(s) == {s[i] : i \in DOMAIN s}

\* the permutations of a finite set, as sequences
Perms(S) ==
    {p \in [1..Cardinality(S) -> S] : \A i, j \in DOMAIN p : p[i] = p[j] => i = j}

NoDup(s) == \A i, j \in DOMAIN s : s[i] = s[j] => i = j

----------------------------------------------------------------------------
(* Index pool (KOrKMinusOne).  The class lives in Utils.py, which is not   *)
(* among the available sources; it is modelled from section 4.1 of the     *)
(* specification.                                                          *)

IndexRangeShifted(n) == 1..n

\* range(len(data_tr)), the indices handed to the pool
IndexRange(n) == 0..(n - 1)

\* KOrKMinusOne(range(n), shuffle=True): any shuffled permutation, cursor 0
KkmNew(n) == {[idxs |-> p, counter |-> 0] : p \in Perms(IndexRange(n))}

Remaining(k) == Len(k.idxs) - k.counter

\* number of indices one pop_k(k) returns
PopCount(pool, k) == Min(k, Remaining(pool))

\* the indices pop_k(k) returns
PopResult(pool, k) == SubSeq(pool.idxs, pool.counter + 1, pool.counter + PopCount(pool, k))

PopNextLazy(pool, k) ==
    IF k <= Remaining(pool)
    THEN {[pool EXCEPT !.counter = pool.counter + PopCount(pool, k)]}
    ELSE {[idxs |-> p, counter |-> 0] : p \in Perms(Range(pool.idxs))}

\* the states the pool may be in after pop_k(k): the cursor advances; once
\* the cycle is used up a fresh full permutation is shuffled
PopNext(pool, k) ==
    IF PopCount(pool, k) < Remaining(pool)
    THEN {[pool EXCEPT !.counter = pool.counter + PopCount(pool, k)]}
    ELSE {[idxs |-> p, counter |-> 0] : p \in Perms(Range(pool.idxs))}

----------------------------------------------------------------------------
(* Candidate selection: get_image_latent_dataset.                          *)

\* float("inf"), the initial value of least_losses; every loss is below it
Inf == -1

LessOrEqualLoss(a, b) == IF b = Inf THEN TRUE ELSE IF a = Inf THEN FALSE ELSE a <= b

\* a < b on losses, as torch compares them
LessLoss(a, b) == IF a = Inf THEN FALSE ELSE IF b = Inf THEN TRUE ELSE a < b

\* values sample_latent_dict may draw for a latent code and for a mask noise
Latents == {"za", "zb"}

Noises == {0, 1}

\* The network is an external collaborator: a deterministic per-candidate
\* loss of (parameters, image, mask noise, latent).  The table has a row
\* where both latents tie, one where the first is lower and one where the
\* second is lower; image, noise and parameters select the row.
LossTable ==
    <<[za |-> 1, zb |-> 1], [za |-> 0, zb |-> 2], [za |-> 2, zb |-> 1]>>

ModelLoss(w, x, n, z) == LossTable[((w + x + n) % 3) + 1][z]

\* model(x, z, reduction="batch"): image i of the chunk is paired with its
\* mask noise and with candidates (i-1)*sp+1 .. i*sp of the flat latent batch
ModelForward(w, x, noise, latents, sp) ==
    [k \in 1..Len(latents) |->
        ModelLoss(w, x[((k - 1) \div sp) + 1], noise[((k - 1) \div sp) + 1], latents[k])]

\* torch.min(losses.view(bs, sp), dim=1): position (1..sp) of the first
\* minimal loss of row i
ArgMinRow(losses, i, sp) ==
    CHOOSE j \in 1..sp :
        /\ \A m \in 1..sp : LessOrEqualLoss(losses[(i - 1) * sp + j], losses[(i - 1) * sp + m])
        /\ \A m \in 1..(j - 1) : LessLoss(losses[(i - 1) * sp + j], losses[(i - 1) * sp + m])

NumRoundsNoDiv(a) == a.ns

NumRoundsCeil(a) == CeilDiv(a.ns, a.sp)

\* range(args.ns // args.sp)
NumRounds(a) == a.ns \div a.sp

SelLoaderLenDropLast(s, a) == Len(s.dataset) \div a.code_bs

\* len(loader) of the selection loader (batch_size=code_bs, drop_last=False)
SelLoaderLen(s, a) == CeilDiv(Len(s.dataset), a.code_bs)

MaskNoiseSliceFromZero(mask_noise, start, stop) == SubSeq(mask_noise, 1, stop - start)

\* mask_noise[start:stop]
MaskNoiseSlice(mask_noise, start, stop) == SubSeq(mask_noise, start + 1, stop)

ChangeAlways(loss, least) == TRUE

ChangeOnTie(loss, least) == LessOrEqualLoss(loss, least)

\* change_idxs = losses < least_losses[start:stop], elementwise
Change(loss, least) == LessLoss(loss, least)

\* torch.cat(all_images, axis=0)
RECURSIVE Cat(_)
Cat(chunks) == IF chunks = <<>> THEN <<>> ELSE Head(chunks) \o Cat(Tail(chunks))

SelNetTrained(n) == [n EXCEPT !.params = @ + 1]

\* line 72: the forward passes of selection run under torch.no_grad() and
\* the function calls neither the optimizer nor the scheduler
SelNet(n) == n

SelIdle ==
    [dataset |-> <<>>, least_losses |-> <<>>, best_latents |-> <<>>,
     mask_noise |-> <<>>, all_images |-> <<>>, idx |-> 0, x |-> <<>>,
     start |-> 0, stop |-> 0, mask_noise_chunk |-> <<>>, rnd |-> 0]

\* the call get_image_latent_dataset(model, dataset, latent_spec, args)
SelCall(dataset) == [SelIdle EXCEPT !.dataset = dataset]

\* History of the selection call in progress (or just returned), of the
\* minibatch loop of the epoch and of the run; read by the properties only.
ObsIdle ==
    [dataset |-> <<>>, noise0 |-> <<>>, evaluated |-> <<>>, used_noise |-> <<>>,
     rounds |-> <<>>, passes |-> 0, evals |-> 0, pass_sizes |-> {},
     round_min |-> <<>>, tied |-> <<>>, cands |-> <<>>,
     steps |-> 0, uses |-> <<>>, full_passes |-> 0, ds0 |-> <<>>,
     pops |-> [e \in 0..MaxEpochs |-> 0], trained |-> {},
     returned |-> <<>>, last_pop |-> [k |-> 0, got |-> <<>>],
     supplied |-> [ns |-> 0, sp |-> 0]]

ObsSelReset(o) ==
    [o EXCEPT !.dataset = <<>>, !.noise0 = <<>>, !.evaluated = <<>>, !.used_noise = <<>>,
              !.rounds = <<>>, !.passes = 0, !.evals = 0, !.pass_sizes = {},
              !.round_min = <<>>, !.tied = <<>>, !.cands = <<>>]

\* lines 73-87: least_losses, the initial codes, the loader
SelInit ==
    /\ pc = "sel_init"
    /\ \E lat \in [1..Len(sel.dataset) -> Latents], noise \in [1..Len(sel.dataset) -> Noises] :
        /\ sel' = [sel EXCEPT !.least_losses = [i \in 1..Len(sel.dataset) |-> Inf],
                               !.best_latents = lat,
                               !.mask_noise = noise,
                               !.all_images = <<>>,
                               !.idx = 0]
        /\ obs' = [obs EXCEPT !.dataset = sel.dataset,
                               !.noise0 = noise,
                               !.evaluated = [i \in 1..Len(sel.dataset) |-> {}],
                               !.used_noise = [i \in 1..Len(sel.dataset) |-> {}],
                               !.rounds = [i \in 1..Len(sel.dataset) |-> 0],
                               !.round_min = [i \in 1..Len(sel.dataset) |-> Inf],
                               !.tied = [i \in 1..Len(sel.dataset) |-> FALSE],
                               !.cands = [i \in 1..Len(sel.dataset) |-> 0],
                               !.passes = 0, !.evals = 0, !.pass_sizes = {}]
    /\ pc' = "sel_chunk"
    /\ UNCHANGED <<args, data_len, kkm, epoch, batch_dataset, train, cur_step, net, out>>

\* lines 88-98: the loader yields the next chunk of at most code_bs images
SelChunk ==
    /\ pc = "sel_chunk"
    /\ sel.idx < SelLoaderLen(sel, args)
    /\ LET start == sel.idx * args.code_bs
           stop == Min(Len(sel.dataset), (sel.idx + 1) * args.code_bs)
           x == SubSeq(sel.dataset, start + 1, Min(Len(sel.dataset), start + args.code_bs))
       IN sel' = [sel EXCEPT !.all_images = Append(@, x),
                             !.x = x,
                             !.start = start,
                             !.stop = stop,
                             !.mask_noise_chunk = MaskNoiseSlice(sel.mask_noise, start, stop),
                             !.idx = @ + 1,
                             !.rnd = 0]
    /\ pc' = IF NumRounds(args) > 0 THEN "sel_round" ELSE "sel_chunk"
    /\ UNCHANGED <<args, data_len, kkm, epoch, batch_dataset, train, cur_step, net, out, obs>>

\* lines 100-121: one round of sp fresh candidates per image of the chunk
SelRound ==
    /\ pc = "sel_round"
    /\ sel.rnd < NumRounds(args)
    /\ LET bs == Len(sel.x)
           sp == args.sp
       IN \E latents \in [1..(bs * sp) -> Latents] :
           LET losses == ModelForward(net.params, sel.x, sel.mask_noise_chunk, latents, sp)
               idxs == [i \in 1..bs |-> ArgMinRow(losses, i, sp)]
               new_codes == [i \in 1..bs |-> latents[(i - 1) * sp + idxs[i]]]
               new_losses == [i \in 1..bs |-> losses[(i - 1) * sp + idxs[i]]]
               InChunk(e) == sel.start < e /\ e <= sel.start + bs
               row(i) == {losses[(i - 1) * sp + j] : j \in 1..sp}
               row_min(i) == CHOOSE l \in row(i) : \A m \in row(i) : l <= m
               change_idxs == [i \in 1..bs |-> Change(new_losses[i], sel.least_losses[sel.start + i])]
           IN /\ sel' = [sel EXCEPT
                           !.best_latents = [e \in DOMAIN @ |->
                               IF InChunk(e) /\ change_idxs[e - sel.start]
                               THEN new_codes[e - sel.start] ELSE @[e]],
                           !.least_losses = [e \in DOMAIN @ |->
                               IF InChunk(e) /\ change_idxs[e - sel.start]
                               THEN new_losses[e - sel.start] ELSE @[e]],
                           !.rnd = @ + 1]
              /\ obs' = [obs EXCEPT
                           !.evaluated = [e \in DOMAIN @ |->
                               IF InChunk(e)
                               THEN @[e] \cup {[z |-> latents[(e - sel.start - 1) * sp + j],
                                                 loss |-> losses[(e - sel.start - 1) * sp + j]] : j \in 1..sp}
                               ELSE @[e]],
                           !.used_noise = [e \in DOMAIN @ |->
                               IF InChunk(e)
                               THEN @[e] \cup {sel.mask_noise_chunk[e - sel.start]}
                               ELSE @[e]],
                           !.rounds = [e \in DOMAIN @ |->
                               IF InChunk(e) THEN @[e] + 1 ELSE @[e]],
                           !.round_min = [e \in DOMAIN @ |->
                               IF InChunk(e) THEN row_min(e - sel.start) ELSE @[e]],
                           !.tied = [e \in DOMAIN @ |->
                               IF InChunk(e)
                               THEN @[e] \/ (/\ row_min(e - sel.start) = sel.least_losses[e]
                                             /\ new_codes[e - sel.start] /= sel.best_latents[e])
                               ELSE @[e]],
                           !.cands = [e \in DOMAIN @ |->
                               IF InChunk(e) THEN @[e] + sp ELSE @[e]],
                           !.passes = @ + 1,
                           !.evals = @ + bs * sp,
                           !.pass_sizes = @ \cup {bs * sp}]
    /\ net' = SelNet(net)
    /\ pc' = IF sel.rnd + 1 < NumRounds(args) THEN "sel_round" ELSE "sel_chunk"
    /\ UNCHANGED <<args, data_len, kkm, epoch, batch_dataset, train, cur_step, out>>

\* lines 124-126: the loader is exhausted; build the ImageLatentDataset
SelReturn ==
    /\ pc = "sel_chunk"
    /\ sel.idx >= SelLoaderLen(sel, args)
    /\ batch_dataset' = [images |-> Cat(sel.all_images),
                         mask_noises |-> sel.mask_noise,
                         latents |-> sel.best_latents]
    /\ sel' = SelIdle
    /\ pc' = "make_loader"
    /\ UNCHANGED <<args, data_len, kkm, epoch, train, cur_step, net, out, obs>>

----------------------------------------------------------------------------
(* The __main__ block: argument handling, setup and the epoch loop.        *)

ClampSpNone(a) == a

\* lines 282-284: --sp is clamped to --ns
ClampSp(a) == IF a.sp > a.ns THEN [a EXCEPT !.sp = a.ns] ELSE a

\* lines 279-281: an empty --v_spec forces --z_per_ex to 1
ClampZPerEx(a) == IF Len(a.v_spec) = 0 THEN [a EXCEPT !.z_per_ex = 1] ELSE a

\* line 215: the choices of --arch
ArchChoices == {"base_pretrained", "large_pretrained"}

\* line 276: parse_args exits on an --arch outside its choices
GetArgsReject ==
    /\ pc = "get_args"
    /\ args.arch \notin ArchChoices
    /\ out' = [out EXCEPT !.error = "SystemExit"]
    /\ pc' = "crashed"
    /\ UNCHANGED <<args, data_len, kkm, epoch, sel, batch_dataset, train, cur_step, net, obs>>

\* lines 276-285
GetArgs ==
    /\ pc = "get_args"
    /\ args.arch \in ArchChoices
    /\ args' = ClampSp(ClampZPerEx(args))
    /\ out' = [out EXCEPT !.warnings = @ \cup (IF Len(args.v_spec) = 0 THEN {"v_spec"} ELSE {})
                                          \cup (IF args.sp > args.ns THEN {"sp"} ELSE {})]
    /\ obs' = [obs EXCEPT !.supplied = [ns |-> args.ns, sp |-> args.sp]]
    /\ pc' = "setup"
    /\ UNCHANGED <<data_len, kkm, epoch, sel, batch_dataset, train, cur_step, net>>

SetupRaisesArchOnly(a) == a.arch \notin ArchChoices

\* lines 293-314: a --resume that is not None, or an architecture that is
\* neither of the two known ones, raises NotImplementedError
SetupRaises(a) == a.resume /= "None" \/ a.arch \notin ArchChoices

\* lines 305, 314
SetupFail ==
    /\ pc = "setup"
    /\ SetupRaises(args)
    /\ out' = [out EXCEPT !.error = "NotImplementedError"]
    /\ pc' = "crashed"
    /\ UNCHANGED <<args, data_len, kkm, epoch, sel, batch_dataset, train, cur_step, net, obs>>

\* lines 293-330: model, optimizer, datasets, index pool and scheduler
Setup ==
    /\ pc = "setup"
    /\ ~SetupRaises(args)
    /\ kkm' \in KkmNew(data_len)
    /\ net' = [params |-> 0, opt_steps |-> 0, sched_steps |-> 0]
    /\ pc' = "validate0"
    /\ UNCHANGED <<args, data_len, epoch, sel, batch_dataset, train, cur_step, out, obs>>

\* line 346
LogIter(a) == Max(1, (a.epochs * a.ipe) \div 10000)

\* lines 335-348: the validation before training, logged at step 0
InitialValidate ==
    /\ pc = "validate0"
    /\ out' = [out EXCEPT !.validations = Append(@, 0),
                           !.logs = Append(@, [step |-> 0, kind |-> "validation", epoch |-> 0,
                                                  results |-> TRUE])]
    /\ cur_step' = 0
    /\ epoch' = 0
    /\ pc' = "epoch_top"
    /\ UNCHANGED <<args, data_len, kkm, sel, batch_dataset, train, net, obs>>

NoDataset == [images |-> <<>>, mask_noises |-> <<>>, latents |-> <<>>]

\* lines 349-355: the next epoch pops its indices and calls the selection
EpochStart ==
    /\ pc = "epoch_top"
    /\ epoch < args.epochs
    /\ sel' = SelCall(PopResult(kkm, args.ex_per_epoch))
    /\ kkm' \in PopNext(kkm, args.ex_per_epoch)
    /\ batch_dataset' = NoDataset   \* the previous epoch's dataset is dead from here on
    /\ obs' = [obs EXCEPT !.pops = [@ EXCEPT ![epoch] = @ + 1]]
    /\ pc' = "sel_init"
    /\ UNCHANGED <<args, data_len, epoch, train, cur_step, net, out>>

\* len(loader) of the training loader (batch_size=mini_bs, drop_last=False)
LoaderLen(ds, a) == CeilDiv(Len(ds.images), a.mini_bs)

NumPassesNoMax(a, len_loader) == a.ipe \div len_loader

\* line 365
NumPasses(a, len_loader) == Max(1, a.ipe \div len_loader)

TrainIdle ==
    [num_passes_over_loader |-> 0, gradient_steps |-> 0, passes_left |-> 0, remaining |-> {}]

\* lines 357-368: the training loader and the chained passes over it
MakeLoader ==
    /\ pc = "make_loader"
    /\ LET len_loader == LoaderLen(batch_dataset, args)
           num_passes == NumPasses(args, len_loader)
       IN /\ train' = [num_passes_over_loader |-> num_passes,
                       gradient_steps |-> num_passes * len_loader,
                       passes_left |-> IF len_loader = 0 THEN 0 ELSE num_passes,
                       remaining |-> {}]
          /\ pc' = IF len_loader = 0 \/ num_passes = 0 THEN "epoch_end" ELSE "train"
    /\ obs' = [ObsSelReset(obs) EXCEPT !.steps = 0,
                                       !.uses = [i \in 1..Len(batch_dataset.images) |-> 0],
                                       !.full_passes = 0,
                                       !.ds0 = batch_dataset]
    /\ UNCHANGED <<args, data_len, kkm, epoch, sel, batch_dataset, cur_step, net, out>>

SchedulerStepSkipped(n) == n

\* line 381, scaler.step(optimizer): the GradScaler runs optimizer.step(),
\* which updates the parameters, unless it found an inf or NaN in the
\* gradients of the scaled loss; then the step is skipped
ScalerStep(n, found_inf) ==
    IF found_inf THEN n
    ELSE [n EXCEPT !.params = @ + 1, !.opt_steps = @ + 1]

\* line 384, scheduler.step()
SchedulerStep(n) == [n EXCEPT !.sched_steps = @ + 1]

\* lines 370-390: one minibatch of the chained, reshuffled passes: forward,
\* backward, optimizer step, scheduler step, step counter, periodic log
GradientStep ==
    /\ pc = "train"
    /\ \E found_inf \in BOOLEAN :
        /\ net' = SchedulerStep(ScalerStep(net, found_inf))
        /\ LET fresh == train.remaining = {}
               pool == IF fresh THEN 1..Len(batch_dataset.images) ELSE train.remaining
               left == IF fresh THEN train.passes_left - 1 ELSE train.passes_left
           IN \E batch \in SUBSET pool :
               /\ Cardinality(batch) = Min(args.mini_bs, Cardinality(pool))
               /\ train' = [train EXCEPT !.remaining = pool \ batch, !.passes_left = left]
               /\ obs' = [obs EXCEPT
                            !.steps = @ + 1,
                            !.uses = [i \in DOMAIN @ |-> IF i \in batch THEN @[i] + 1 ELSE @[i]],
                            !.full_passes = IF pool \ batch = {} THEN @ + 1 ELSE @,
                            !.trained = IF pool \ batch = {} /\ left = 0
                                        THEN @ \cup {epoch} ELSE @]
               /\ pc' = IF pool \ batch = {} /\ left = 0 THEN "epoch_end" ELSE "train"
    /\ cur_step' = cur_step + 1
    /\ out' = [out EXCEPT !.logs =
                 IF (cur_step + 1) % LogIter(args) = 0
                 THEN Append(@, [step |-> cur_step + 1, kind |-> "train", epoch |-> epoch + 1,
                                 results |-> FALSE])
                 ELSE @]
    /\ UNCHANGED <<args, data_len, kkm, epoch, sel, batch_dataset>>

\* lines 395-407: epoch % eval_iter == 0, the Validator runs
Validate ==
    /\ pc = "epoch_end"
    /\ epoch % args.eval_iter = 0
    /\ out' = [out EXCEPT !.validations = Append(@, epoch + 1)]
    /\ pc' = "log"
    /\ UNCHANGED <<args, data_len, kkm, epoch, sel, batch_dataset, train, cur_step, net, obs>>

\* lines 408-412: otherwise data_to_log gets the key "loss/pretrain" and the
\* tqdm.write of line 412 reads data_to_log['loss/pretrain_train']: KeyError
SkipValidate ==
    /\ pc = "epoch_end"
    /\ epoch % args.eval_iter /= 0
    /\ out' = [out EXCEPT !.error = "KeyError"]
    /\ pc' = "crashed"
    /\ UNCHANGED <<args, data_len, kkm, epoch, sel, batch_dataset, train, cur_step, net, obs>>

\* line 414: data_to_log holds the Validator's results only when the branch
\* of line 395 built it
LogEpoch ==
    /\ pc = "log"
    /\ out' = [out EXCEPT !.logs = Append(@, [step |-> cur_step, kind |-> "epoch",
                                              epoch |-> epoch + 1,
                                              results |-> (epoch % args.eval_iter = 0)])]
    /\ pc' = "save"
    /\ UNCHANGED <<args, data_len, kkm, epoch, sel, batch_dataset, train, cur_step, net, obs>>

\* torch.save of lines 415-423: file <epoch+1>.pt
Checkpoint(e) ==
    [name |-> e + 1, last_epoch |-> e, model |-> net.params, kkm |-> kkm]

\* lines 415-424, then the loop goes to its next epoch
SaveCheckpoint ==
    /\ pc = "save"
    /\ out' = [out EXCEPT !.ckpts = @ \cup {Checkpoint(epoch)}]
    /\ epoch' = epoch + 1
    /\ pc' = "epoch_top"
    /\ UNCHANGED <<args, data_len, kkm, sel, batch_dataset, train, cur_step, net, obs>>

\* range(args.epochs) is exhausted: the script ends
Finish ==
    /\ pc = "epoch_top"
    /\ epoch >= args.epochs
    /\ pc' = "done"
    /\ UNCHANGED <<args, data_len, kkm, epoch, sel, batch_dataset, train, cur_step, net, out, obs>>

----------------------------------------------------------------------------------------------------------------------------------------
(* Specifications.                                                         *)

OutIdle == [logs |-> <<>>, validations |-> <<>>, ckpts |-> {}, warnings |-> {}, error |-> "none"]

NetNew == [params |-> 0, opt_steps |-> 0, sched_steps |-> 0]

KkmNone == [idxs |-> <<>>, counter |-> 0]

\* Dataset sizes and sampling/training options of the whole runs explored,
\* with the largest --epochs explored for each: one where --sp is clamped
\* and an epoch is a single minibatch, one where the pops cross a cycle
\* boundary, selection has two rounds per chunk and an epoch falls short of
\* --ipe, one with a partial chunk and two passes, one where --ipe is below
\* the minibatches of a single pass
RunConfigs ==
    {[data_len |-> 2, ex_per_epoch |-> 1, code_bs |-> 1, ns |-> 1, sp |-> 2, ipe |-> 1, mini_bs |-> 2,
      epochs |-> 3],
     [data_len |-> 3, ex_per_epoch |-> 2, code_bs |-> 2, ns |-> 2, sp |-> 1, ipe |-> 3, mini_bs |-> 1,
      epochs |-> 2],
     [data_len |-> 2, ex_per_epoch |-> 1, code_bs |-> 2, ns |-> 2, sp |-> 2, ipe |-> 2, mini_bs |-> 1,
      epochs |-> 3],
     [data_len |-> 2, ex_per_epoch |-> 2, code_bs |-> 2, ns |-> 1, sp |-> 1, ipe |-> 1, mini_bs |-> 1,
      epochs |-> 2]}

\* --resume and --arch of the runs explored: the defaults, a checkpoint to
\* resume from, an unknown architecture
StartupConfigs ==
    {[resume |-> "None", arch |-> "base_pretrained"],
     [resume |-> "ckpt.pt", arch |-> "large_pretrained"],
     [resume |-> "None", arch |-> "tiny"]}

\* a whole run of the script, from the command line on
Init ==
    /\ \E c \in RunConfigs, ei \in 1..MaxEvalIter, st \in StartupConfigs :
      \E ep \in 1..Min(MaxEpochs, c.epochs) :
        /\ data_len = c.data_len
        /\ args = [epochs |-> ep, ex_per_epoch |-> c.ex_per_epoch, code_bs |-> c.code_bs,
                   ns |-> c.ns, sp |-> c.sp, ipe |-> c.ipe, mini_bs |-> c.mini_bs,
                   eval_iter |-> ei, resume |-> st.resume, arch |-> st.arch,
                   v_spec |-> <<"v">>, z_per_ex |-> 2]
    /\ kkm = KkmNone
    /\ pc = "get_args"
    /\ epoch = 0
    /\ sel = SelIdle
    /\ batch_dataset = NoDataset
    /\ train = TrainIdle
    /\ cur_step = 0
    /\ net = NetNew
    /\ out = OutIdle
    /\ obs = ObsIdle

Next ==
    \/ GetArgsReject
    \/ GetArgs
    \/ SetupFail
    \/ Setup
    \/ InitialValidate
    \/ EpochStart
    \/ SelInit
    \/ SelChunk
    \/ SelRound
    \/ SelReturn
    \/ MakeLoader
    \/ GradientStep
    \/ Validate
    \/ SkipValidate
    \/ LogEpoch
    \/ SaveCheckpoint
    \/ Finish

Spec == Init /\ [][Next]_vars

\* The index pool alone: a pool over any dataset size, popped with any k <= N
PopK ==
    /\ pc = "pool"
    /\ Len(obs.returned) < MaxReturned
    /\ \E k \in 1..data_len :
        /\ kkm' \in PopNext(kkm, k)
        /\ obs' = [obs EXCEPT !.returned = @ \o PopResult(kkm, k),
                               !.last_pop = [k |-> k, got |-> PopResult(kkm, k)]]
    /\ UNCHANGED <<args, data_len, pc, epoch, sel, batch_dataset, train, cur_step, net, out>>

IdleArgs ==
    [epochs |-> 1, ex_per_epoch |-> 1, code_bs |-> 1, ns |-> 1, sp |-> 1, ipe |-> 1,
     mini_bs |-> 1, eval_iter |-> 1, resume |-> "None", arch |-> "base_pretrained",
     v_spec |-> <<"v">>, z_per_ex |-> 2]

InitPool ==
    /\ data_len \in 1..MaxPoolN
    /\ kkm \in KkmNew(data_len)
    /\ args = IdleArgs
    /\ pc = "pool"
    /\ epoch = 0
    /\ sel = SelIdle
    /\ batch_dataset = NoDataset
    /\ train = TrainIdle
    /\ cur_step = 0
    /\ net = NetNew
    /\ out = OutIdle
    /\ obs = ObsIdle

NextPool == PopK

SpecPool == InitPool /\ [][NextPool]_vars

\* get_args alone, on any supplied --ns and --sp, an empty or non-empty
\* --v_spec and a known or unknown --arch
InitArgs ==
    /\ \E n \in 1..MaxArgNs, s \in 1..MaxArgNs, v \in {<<>>, <<"v">>}, a \in {"base_pretrained", "tiny"} :
        args = [IdleArgs EXCEPT !.ns = n, !.sp = s, !.v_spec = v, !.arch = a]
    /\ data_len = 1
    /\ kkm = KkmNone
    /\ pc = "get_args"
    /\ epoch = 0
    /\ sel = SelIdle
    /\ batch_dataset = NoDataset
    /\ train = TrainIdle
    /\ cur_step = 0
    /\ net = NetNew
    /\ out = OutIdle
    /\ obs = ObsIdle

NextArgs ==
    \/ GetArgsReject
    \/ GetArgs

SpecArgs == InitArgs /\ [][NextArgs]_vars

\* One call of get_image_latent_dataset on any subset of B examples, with
\* any code_bs and any 1 <= sp <= ns (get_args has clamped sp)
SelDatasets == {[i \in 1..b |-> i - 1] : b \in 1..MaxB}

\* the scenario ns=8, sp=4, code_bs=2, B=2 of the specification's section 8,
\* a subset of three examples whose last chunk is partial, and an ns that
\* sp does not divide
Scenarios ==
    {[d |-> <<0, 1>>, code_bs |-> 2, ns |-> 8, sp |-> 4],
     [d |-> <<2, 0, 1>>, code_bs |-> 2, ns |-> 3, sp |-> 1],
     [d |-> <<1>>, code_bs |-> 1, ns |-> 3, sp |-> 2],
     [d |-> <<0, 1>>, code_bs |-> 1, ns |-> 3, sp |-> 2]}

SelInputs ==
    {[d |-> d, code_bs |-> cb, ns |-> n, sp |-> s] :
        d \in SelDatasets, cb \in 1..MaxCodeBs, n \in 1..MaxNs, s \in 1..MaxNs}

InitSel ==
    /\ \E c \in {i \in SelInputs : i.sp <= i.ns} \cup Scenarios :
            /\ sel = SelCall(c.d)
            /\ data_len = Len(c.d)
            /\ args = [IdleArgs EXCEPT !.ex_per_epoch = Len(c.d), !.code_bs = c.code_bs,
                                        !.ns = c.ns, !.sp = c.sp]
    /\ kkm = KkmNone
    /\ pc = "sel_init"
    /\ epoch = 0
    /\ batch_dataset = NoDataset
    /\ train = TrainIdle
    /\ cur_step = 0
    /\ net = NetNew
    /\ out = OutIdle
    /\ obs = ObsIdle

NextSel ==
    \/ SelInit
    \/ SelChunk
    \/ SelRound
    \/ SelReturn

SpecSel == InitSel /\ [][NextSel]_vars

\* The minibatch loop of one epoch over a derived dataset of any size, with
\* any --ipe and --mini_bs
InitTrain ==
    /\ \E size \in 1..MaxSize, ipe \in 1..MaxIpe, mb \in 1..MaxMiniBs :
        /\ batch_dataset = [images |-> [i \in 1..size |-> i - 1],
                            mask_noises |-> [i \in 1..size |-> 0],
                            latents |-> [i \in 1..size |-> "za"]]
        /\ data_len = size
        /\ args = [IdleArgs EXCEPT !.ex_per_epoch = size, !.ipe = ipe, !.mini_bs = mb]
    /\ kkm = KkmNone
    /\ pc = "make_loader"
    /\ epoch = 0
    /\ sel = SelIdle
    /\ train = TrainIdle
    /\ cur_step = 0
    /\ net = NetNew
    /\ out = OutIdle
    /\ obs = ObsIdle

NextTrain ==
    \/ MakeLoader
    \/ GradientStep

SpecTrain == InitTrain /\ [][NextTrain]_vars

----------------------------------------------------------------------------
(* Properties of the index pool, checked under SpecPool.                   *)

\* the j-th run of data_len consecutive returned indices (the last may be partial)
Block(j) ==
    SubSeq(obs.returned, (j - 1) * data_len + 1, Min(j * data_len, Len(obs.returned)))

\* C1: over the whole history of pop_k calls with k <= N, each full cycle of
\* N returned indices contains every index of [0,N) exactly once, no index is
\* returned twice within a cycle, and no single pop returns an index twice.
C1_EachIndexOncePerCycle ==
    pc = "pool" =>
        /\ \A j \in 1..CeilDiv(Len(obs.returned), data_len) :
            /\ NoDup(Block(j))
            /\ Range(Block(j)) \subseteq 0..(data_len - 1)
            /\ Len(Block(j)) = data_len => Range(Block(j)) = 0..(data_len - 1)
        /\ NoDup(obs.last_pop.got)

\* a full cycle has been returned and a second one begun, over 3 indices
C1_Witness ==
    /\ pc = "pool"
    /\ data_len = 3
    /\ Len(obs.returned) > data_len
    /\ Len(obs.last_pop.got) = 2

\* C2: pop_k(k) with k <= N returns exactly k indices unless fewer than k are
\* left in the cycle; then it returns what is left (between 1 and k-1), and
\* whenever a pop uses up the cycle the pool holds a fresh full permutation
\* of [0,N) for the next call.
C2_PopCount ==
    pc = "pool" /\ obs.last_pop.k > 0 =>
        LET k == obs.last_pop.k
            got == obs.last_pop.got
            before == Len(obs.returned) - Len(got)
            rem == data_len - (before % data_len)
        IN /\ k <= rem => Len(got) = k
           /\ k > rem => Len(got) = rem /\ 1 <= Len(got) /\ Len(got) < k
           /\ k >= rem => /\ kkm.counter = 0
                          /\ Len(kkm.idxs) = data_len
                          /\ Range(kkm.idxs) = 0..(data_len - 1)
           /\ k < rem => kkm.counter = data_len - rem + k

\* a pop of k = 2 at a cycle boundary returned the single index left
C2_Witness ==
    /\ pc = "pool"
    /\ obs.last_pop.k = 2
    /\ Len(obs.last_pop.got) = 1
    /\ Len(obs.returned) = data_len

----------------------------------------------------------------------------
(* Properties of candidate selection, checked under SpecSel.               *)

Selecting == pc \in {"sel_chunk", "sel_round"}

\* the selection has returned and its history is still at hand
Returned == pc = "make_loader" /\ obs.dataset /= <<>>

\* loss of the latent stored for example i of the returned dataset
StoredLoss(i) ==
    ModelLoss(net.params, batch_dataset.images[i], batch_dataset.mask_noises[i],
              batch_dataset.latents[i])

\* loss of the latent held in best_latents for example i during selection
HeldLoss(i) ==
    ModelLoss(net.params, sel.dataset[i], sel.mask_noise[i], sel.best_latents[i])

\* C3: when get_image_latent_dataset returns (1 <= sp <= ns), every example
\* has been through ns // sp rounds and its stored latent is one of the
\* candidates evaluated for it, with a loss no candidate evaluated for it beats.
C3_BestIsMinimum ==
    Returned =>
        \A i \in 1..Len(obs.dataset) :
            /\ obs.rounds[i] = args.ns \div args.sp
            /\ \E c \in obs.evaluated[i] :
                c.z = batch_dataset.latents[i] /\ c.loss = StoredLoss(i)
            /\ \A c \in obs.evaluated[i] : StoredLoss(i) <= c.loss

\* a returned selection of three rounds where an example saw both latents,
\* at different losses
C3_Witness ==
    /\ Returned
    /\ Len(obs.dataset) = 3
    /\ \E i \in 1..Len(obs.dataset) :
        /\ obs.rounds[i] = 3
        /\ \E c, d \in obs.evaluated[i] : c.loss < d.loss

C4_NonIncreasing ==
    Selecting /\ pc' \in {"sel_chunk", "sel_round"} =>
        \A i \in 1..Len(sel.dataset) : LessOrEqualLoss(sel'.least_losses[i], sel.least_losses[i])

\* C4 as stated: during selection the tracked minimum never increases and is
\* always <= the loss of the latent held in best_latents.
C4_AsStated ==
    /\ [][C4_NonIncreasing]_vars
    /\ [](Selecting => \A i \in 1..Len(sel.dataset) :
            LessOrEqualLoss(sel.least_losses[i], HeldLoss(i)))

\* C4 (amended): during selection the tracked minimum never increases; for an
\* example that has been through at least one round it equals (so is <=) the
\* loss of the latent held in best_latents; before its first round it is
\* +infinity and the held latent is the unevaluated initial sample.
C4_MinTracksBest ==
    /\ [][C4_NonIncreasing]_vars
    /\ [](Selecting => \A i \in 1..Len(sel.dataset) :
            IF obs.rounds[i] >= 1
            THEN sel.least_losses[i] = HeldLoss(i)
                 /\ LessOrEqualLoss(sel.least_losses[i], HeldLoss(i))
            ELSE sel.least_losses[i] = Inf)

\* two rounds done on a chunk whose tracked minimum went down in the second
C4_Witness ==
    /\ Selecting
    /\ \E i \in 1..Len(sel.dataset) :
        /\ obs.rounds[i] = 2
        /\ \E c \in obs.evaluated[i] : LessLoss(sel.least_losses[i], c.loss)
    /\ \E i \in 1..Len(sel.dataset) : obs.rounds[i] = 0

\* C6 as stated: with sp dividing ns, B * ns pairs are evaluated in
\* (B / code_bs) * (ns / sp) forward passes of code_bs * sp candidates each.
C6_AsStated ==
    Returned /\ args.ns % args.sp = 0 =>
        /\ obs.evals = Len(obs.dataset) * args.ns
        /\ obs.passes * args.code_bs = Len(obs.dataset) * (args.ns \div args.sp)
        /\ obs.pass_sizes \subseteq {args.code_bs * args.sp}

\* C6 (amended): with sp dividing ns, exactly B * ns pairs are evaluated, in
\* ceil(B / code_bs) * (ns / sp) forward passes; a pass evaluates bs * sp
\* candidates, bs being the size of its chunk: code_bs, or B mod code_bs for
\* the partial last chunk.
C6_Evaluations ==
    Returned /\ args.ns % args.sp = 0 =>
        /\ obs.evals = Len(obs.dataset) * args.ns
        /\ obs.passes = CeilDiv(Len(obs.dataset), args.code_bs) * (args.ns \div args.sp)
        /\ obs.pass_sizes =
             (IF Len(obs.dataset) >= args.code_bs THEN {args.code_bs * args.sp} ELSE {})
             \cup (IF Len(obs.dataset) % args.code_bs /= 0
                   THEN {(Len(obs.dataset) % args.code_bs) * args.sp} ELSE {})

\* the scenario ns=8, sp=4, code_bs=2, B=2: two passes of 8 candidates
C6_Witness ==
    /\ Returned
    /\ args.ns = 8 /\ args.sp = 4 /\ args.code_bs = 2 /\ Len(obs.dataset) = 2
    /\ obs.passes = 2 /\ obs.evals = 16 /\ obs.pass_sizes = {8}
    /\ Len(batch_dataset.latents) = 2

\* C7: the returned dataset has exactly one (image, mask-noise, latent) triple
\* per example of the input subset, in the subset's order, whether or not
\* code_bs divides the subset size.
C7_DatasetSize ==
    Returned =>
        /\ Len(batch_dataset.images) = Len(obs.dataset)
        /\ Len(batch_dataset.mask_noises) = Len(obs.dataset)
        /\ Len(batch_dataset.latents) = Len(obs.dataset)
        /\ batch_dataset.images = obs.dataset

\* a subset of 3 examples selected in chunks of 2 (partial last chunk)
C7_Witness ==
    /\ Returned
    /\ Len(obs.dataset) = 3
    /\ args.code_bs = 2
    /\ Len(batch_dataset.images) = 3

\* C8: the mask noise sampled at the start of selection is never changed: it
\* is the noise every round uses for each example and the noise stored in the
\* returned dataset.
C8_MaskNoiseFixed ==
    /\ Selecting =>
        /\ sel.mask_noise = obs.noise0
        /\ \A i \in 1..Len(sel.dataset) : obs.used_noise[i] \subseteq {obs.noise0[i]}
    /\ Returned =>
        /\ batch_dataset.mask_noises = obs.noise0
        /\ \A i \in 1..Len(obs.dataset) : obs.used_noise[i] = {obs.noise0[i]}

\* a returned selection of two chunks and three rounds whose examples differ
\* in mask noise
C8_Witness ==
    /\ Returned
    /\ Len(obs.dataset) = 3
    /\ args.code_bs = 2
    /\ obs.noise0[1] /= obs.noise0[2] /\ obs.noise0[1] /= obs.noise0[3]
    /\ \A i \in 1..3 : obs.rounds[i] >= 2

C15_Step ==
    /\ (pc = "sel_round" /\ sel'.rnd = sel.rnd + 1) =>
        \A e \in 1..Len(sel.dataset) :
            IF sel.start < e /\ e <= sel.stop /\ LessLoss(obs'.round_min[e], sel.least_losses[e])
            THEN /\ sel'.least_losses[e] = obs'.round_min[e]
                 /\ ModelLoss(net.params, sel.dataset[e], sel.mask_noise[e],
                              sel'.best_latents[e]) = obs'.round_min[e]
            ELSE /\ sel'.least_losses[e] = sel.least_losses[e]
                 /\ sel'.best_latents[e] = sel.best_latents[e]
    /\ (pc = "sel_chunk" /\ pc' \in {"sel_chunk", "sel_round"}) =>
        sel'.least_losses = sel.least_losses /\ sel'.best_latents = sel.best_latents

\* C15: a round overwrites the best latent and the best loss of an example
\* only when the round's minimum is strictly lower than the running minimum,
\* and then with that minimum and a latent that attains it; on a tie, and on
\* a higher minimum, the earlier-found latent and its loss are kept.
C15_StrictlyLower == [][C15_Step]_vars

\* some round's minimum tied the running minimum with a different latent
C15_Witness ==
    /\ Selecting
    /\ \E e \in 1..Len(sel.dataset) :
        /\ obs.tied[e]
        /\ obs.rounds[e] >= 2
        /\ obs.round_min[e] = sel.least_losses[e]

\* C16: when sp does not divide ns (and sp <= ns), every chunk runs exactly
\* ns // sp rounds, so every example is evaluated against exactly
\* sp * (ns // sp) candidates: fewer than ns, and at least sp.
C16_TrailingDropped ==
    Returned /\ args.ns % args.sp /= 0 =>
        \A i \in 1..Len(obs.dataset) :
            /\ obs.rounds[i] = args.ns \div args.sp
            /\ obs.cands[i] = args.sp * (args.ns \div args.sp)
            /\ obs.cands[i] < args.ns
            /\ obs.cands[i] >= args.sp

\* ns = 3, sp = 2: one round of two candidates, the third is never drawn
C16_Witness ==
    /\ Returned
    /\ args.ns = 3 /\ args.sp = 2
    /\ obs.rounds[1] = 1
    /\ obs.cands[1] = 2

----------------------------------------------------------------------------
(* Properties of the minibatch loop of an epoch, checked under SpecTrain.  *)

\* ceil(size / mini_bs) for the derived dataset of the epoch
BatchesPerPass == CeilDiv(Len(batch_dataset.images), args.mini_bs)

\* C5 as stated: an epoch performs at least ipe gradient steps, and never zero.
C5_AsStated ==
    pc = "epoch_end" => obs.steps >= args.ipe /\ obs.steps > 0

\* C5 (amended): an epoch performs exactly num_passes * batches_per_pass
\* gradient steps, with num_passes = max(1, ipe // batches_per_pass); that is
\* never zero, at least batches_per_pass and more than ipe - batches_per_pass,
\* and it reaches ipe only when ipe <= batches_per_pass or batches_per_pass
\* divides ipe: otherwise it is ipe - (ipe mod batches_per_pass), below ipe.
C5_StepsPerEpoch ==
    pc = "epoch_end" =>
        /\ obs.steps = Max(1, args.ipe \div BatchesPerPass) * BatchesPerPass
        /\ obs.steps > 0
        /\ obs.steps >= BatchesPerPass
        /\ obs.steps > args.ipe - BatchesPerPass
        /\ obs.steps >= args.ipe <=>
             (args.ipe <= BatchesPerPass \/ args.ipe % BatchesPerPass = 0)
        /\ obs.steps < args.ipe => obs.steps = args.ipe - (args.ipe % BatchesPerPass)

\* an epoch of two full passes that ends one step short of ipe = 5
C5_Witness ==
    /\ pc = "epoch_end"
    /\ args.ipe = 5
    /\ BatchesPerPass = 2
    /\ obs.steps = 4

\* C17: within an epoch the derived dataset is replayed for exactly
\* max(1, ipe // batches_per_pass) complete passes; every pass takes every
\* example exactly once (no minibatch is dropped), so each example is used
\* in exactly that many gradient steps, and the dataset is the same in
\* every pass.
C17_PassesCoverAll ==
    /\ pc \in {"train", "epoch_end"} =>
        /\ batch_dataset = obs.ds0
        /\ DOMAIN obs.uses = 1..Len(batch_dataset.images)
        /\ \A i \in DOMAIN obs.uses : obs.uses[i] \in {obs.full_passes, obs.full_passes + 1}
        /\ train.remaining = {} => \A i \in DOMAIN obs.uses : obs.uses[i] = obs.full_passes
        /\ obs.full_passes <= Max(1, args.ipe \div BatchesPerPass)
    /\ pc = "epoch_end" =>
        /\ obs.full_passes = Max(1, args.ipe \div BatchesPerPass)
        /\ \A i \in DOMAIN obs.uses : obs.uses[i] = Max(1, args.ipe \div BatchesPerPass)
        /\ obs.steps = Max(1, args.ipe \div BatchesPerPass) * BatchesPerPass

\* an epoch of two passes over three examples in minibatches of two and one
C17_Witness ==
    /\ pc = "epoch_end"
    /\ Len(batch_dataset.images) = 3
    /\ args.mini_bs = 2
    /\ obs.full_passes = 2
    /\ \A i \in 1..3 : obs.uses[i] = 2

C18_Frame ==
    (net' /= net \/ cur_step' /= cur_step) =>
        /\ pc = "train"
        /\ cur_step' = cur_step + 1
        /\ net'.sched_steps = net.sched_steps + 1

\* C18 as stated: every gradient step performs exactly one optimizer step,
\* one scheduler step and one increment of cur_step, so that the optimizer
\* steps, the scheduler steps and cur_step are always equal, and none of
\* them changes outside a gradient step.
C18_AsStated ==
    /\ [][C18_Frame /\ (cur_step' /= cur_step => net'.opt_steps = net.opt_steps + 1)]_vars
    /\ [](net.opt_steps = cur_step /\ net.sched_steps = cur_step)

\* C18 (amended): every gradient step calls scaler.step(optimizer) once, which
\* performs one optimizer step unless the gradient scaler found non-finite
\* gradients and skips it, then performs exactly one scheduler step and
\* increments cur_step by one; so the scheduler steps and cur_step are always
\* equal, the optimizer steps never exceed them, the parameters change
\* exactly in the optimizer steps, and none of these changes outside a
\* gradient step.
C18_StepCounters ==
    /\ [][/\ C18_Frame
          /\ cur_step' /= cur_step =>
                /\ net'.opt_steps \in {net.opt_steps, net.opt_steps + 1}
                /\ net'.params /= net.params <=> net'.opt_steps = net.opt_steps + 1]_vars
    /\ [](net.sched_steps = cur_step /\ net.opt_steps <= cur_step)

\* three gradient steps, one of which skipped its optimizer step
C18_Witness ==
    /\ cur_step = 3
    /\ net.sched_steps = 3
    /\ net.opt_steps = 2

----------------------------------------------------------------------------
(* Properties of whole runs, checked under Spec.                           *)

Stopped == pc \in {"done", "crashed"}

\* C9 as stated: once the gradient steps of epoch e are over, <e+1>.pt with
\* last_epoch = e is written before epoch e+1 starts and before the run ends,
\* whatever eval_iter is.
C9_EveryEpochCheckpointed ==
    \A e \in obs.trained :
        (epoch > e \/ Stopped) =>
            \E c \in out.ckpts : c.name = e + 1 /\ c.last_epoch = e

\* the phase of the epoch state machine the control thread is in
PhaseOf(p) ==
    CASE p \in {"get_args", "setup", "validate0"} -> "Startup"
      [] p = "epoch_top" -> "Idle"
      [] p \in {"sel_init", "sel_chunk", "sel_round"} -> "Sampling"
      [] p = "make_loader" -> "DerivedDatasetReady"
      [] p \in {"train", "epoch_end"} -> "TrainingMinibatches"
      [] p = "log" -> "Validating"
      [] p = "save" -> "Checkpointing"
      [] p = "done" -> "Done"
      [] OTHER -> "Aborted"

PhaseOrder ==
    {<<"Startup", "Idle">>, <<"Idle", "Sampling">>, <<"Sampling", "DerivedDatasetReady">>,
     <<"DerivedDatasetReady", "TrainingMinibatches">>, <<"TrainingMinibatches", "Validating">>,
     <<"TrainingMinibatches", "Checkpointing">>, <<"Validating", "Checkpointing">>,
     <<"Checkpointing", "Idle">>, <<"Idle", "Done">>,
     <<"Startup", "Aborted">>}   \* a configuration error, before any epoch

C10_Step ==
    /\ PhaseOf(pc') = PhaseOf(pc) \/ <<PhaseOf(pc), PhaseOf(pc')>> \in PhaseOrder
    /\ cur_step' /= cur_step =>
        /\ PhaseOf(pc) = "TrainingMinibatches"
        /\ Len(batch_dataset.images) >= 1
        /\ obs.pops[epoch] = 1
    /\ (PhaseOf(pc) /= "Startup" /\ (out'.validations /= out.validations \/ out'.ckpts /= out.ckpts)) =>
        epoch \in obs.trained /\ pc /= "train"
    /\ \A e \in DOMAIN obs.pops : obs'.pops[e] <= 1
    /\ epoch' /= epoch => obs.pops[epoch] = 1

\* C10 as stated: every epoch goes Sampling -> DerivedDatasetReady ->
\* TrainingMinibatches -> Validating (optional) -> Checkpointing -> next epoch
\* and in no other way: gradient steps only on the built dataset, validation
\* and checkpoint only after the last gradient step, one pop per epoch.
C10_PhaseOrder == [][C10_Step]_vars

\* C11 as stated: the Validator runs exactly in the epochs e with
\* e % eval_iter = 0 and its results are logged; every other epoch logs its
\* training loss, learning rate and epoch only and goes on to its checkpoint.
C11_ValidatorPeriod ==
    \A e \in obs.trained :
        (epoch > e \/ Stopped) =>
            /\ (e + 1) \in Range(out.validations) <=> (e % args.eval_iter = 0)
            /\ \E i \in DOMAIN out.logs :
                /\ out.logs[i].kind = "epoch"
                /\ out.logs[i].epoch = e + 1
                /\ out.logs[i].results = (e % args.eval_iter = 0)
            /\ \E c \in out.ckpts : c.name = e + 1

\* C12: a run started with a --resume that is not None or with an unknown
\* architecture stops with an error at startup: it never gets past argument
\* handling and setup, so it pops no index, selects no candidate, takes no
\* gradient step and writes no checkpoint.
C12_FatalAtStartup ==
    (args.resume /= "None" \/ args.arch \notin {"base_pretrained", "large_pretrained"}) =>
        /\ pc \in {"get_args", "setup", "crashed"}
        /\ pc = "crashed" => out.error \in {"NotImplementedError", "SystemExit"}
        /\ kkm = KkmNone
        /\ \A e \in DOMAIN obs.pops : obs.pops[e] = 0
        /\ sel = SelIdle /\ obs.dataset = <<>> /\ batch_dataset = NoDataset
        /\ cur_step = 0 /\ net = NetNew /\ obs.trained = {}
        /\ out.ckpts = {} /\ out.validations = <<>> /\ out.logs = <<>>

\* a run given --resume has raised in setup
C12_Witness ==
    /\ pc = "crashed"
    /\ args.resume /= "None"
    /\ out.error = "NotImplementedError"

\* C14 as stated: every log call uses a step strictly greater than the step
\* of the log call before it.
C14_AsStated ==
    \A i \in 1..(Len(out.logs) - 1) : out.logs[i].step < out.logs[i + 1].step

\* C14 (amended): the steps of the log calls never decrease, starting from
\* the step-0 validation log; a call uses a strictly greater step than the
\* call before it except the end-of-epoch log, which uses the step of the
\* training log of the epoch's last gradient step whenever that step was
\* logged (cur_step a multiple of log_iter).
C14_StepsNonDecreasing ==
    /\ Len(out.logs) >= 1 => out.logs[1].step = 0 /\ out.logs[1].kind = "validation"
    /\ \A i \in 1..(Len(out.logs) - 1) :
        /\ out.logs[i].step <= out.logs[i + 1].step
        /\ out.logs[i].step = out.logs[i + 1].step =>
            /\ out.logs[i].kind = "train"
            /\ out.logs[i + 1].kind = "epoch"
            /\ out.logs[i].epoch = out.logs[i + 1].epoch
        /\ (out.logs[i + 1].kind = "epoch" /\ out.logs[i + 1].step % LogIter(args) = 0) =>
            out.logs[i].step = out.logs[i + 1].step

\* an end-of-epoch log at the step of the training log before it, followed
\* by a log of the next epoch
C14_Witness ==
    \E i \in 1..(Len(out.logs) - 2) :
        /\ out.logs[i].kind = "train"
        /\ out.logs[i + 1].kind = "epoch"
        /\ out.logs[i].step = out.logs[i + 1].step
        /\ out.logs[i + 2].step > out.logs[i + 1].step
        /\ out.logs[i + 2].epoch = 2

C19_Step ==
    /\ PhaseOf(pc) = "Sampling" =>
        /\ net' = net
        /\ cur_step' = cur_step
        /\ kkm' = kkm
    /\ net'.params /= net.params =>
        /\ pc = "train"
        /\ net'.opt_steps = net.opt_steps + 1

\* C19: from the call of get_image_latent_dataset to its return the model
\* parameters, the optimizer and scheduler state, the global step counter
\* and the index pool stay as they are; the parameters change only in an
\* optimizer step of the training loop.
C19_SelectionReadOnly == [][C19_Step]_vars

\* the selection of the second epoch has returned, on parameters that the
\* first epoch's optimizer steps had changed
C19_Witness ==
    /\ Returned
    /\ epoch = 1
    /\ net.params >= 1
    /\ cur_step >= 2
    /\ obs.passes >= 2

----------------------------------------------------------------------------
(* Properties of argument handling, checked under SpecArgs.                *)

\* C13: after get_args sp never exceeds ns: a supplied sp > ns is set to ns
\* with a warning and without an error, and when sp <= ns both values are
\* left as supplied (and no warning about sp is given); get_args fails only
\* on an --arch outside its choices.
C13_SpClamped ==
    /\ pc = "setup" =>
        /\ args.sp <= args.ns
        /\ args.ns = obs.supplied.ns
        /\ out.error = "none"
        /\ IF obs.supplied.sp > obs.supplied.ns
           THEN args.sp = obs.supplied.ns /\ "sp" \in out.warnings
           ELSE args.sp = obs.supplied.sp /\ "sp" \notin out.warnings
    /\ (pc = "crashed" /\ obs.supplied.ns = 0) => args.arch \notin ArchChoices

\* get_args has returned from a supplied sp = 3 > ns = 2
C13_Witness ==
    /\ pc = "setup"
    /\ obs.supplied = [ns |-> 2, sp |-> 3]
    /\ args.sp = 2
    /\ "sp" \in out.warnings

====
